---- MODULE Spec2Model ----
(***************************************************************************)
(* Preprocessing of modules/learn-cgo/hello.h inside one translation unit. *)
(* The header is a list of directive and text lines (comments are removed  *)
(* before directives are processed); the translation unit includes it up   *)
(* to MaxIncludes times, as C (__cplusplus undefined) or as C++.           *)
(***************************************************************************)
EXTENDS Integers, Sequences, FiniteSets, TLC

\* how many times the translation unit includes hello.h
MaxIncludes == 2

\* macros the translation unit may have defined before the first inclusion
PredefinableMacros == {"learn_cgo", "__cplusplus", "OTHER_MACRO"}

\* ---- the tokens of the header's text lines ----
\* void hello_from_c();
DeclHelloFromC ==
    [t |-> "decl", name |-> "hello_from_c", ret |-> "void", params |-> <<>>, body |-> FALSE]
\* void hello_from_cpp();
DeclHelloFromCpp ==
    [t |-> "decl", name |-> "hello_from_cpp", ret |-> "void", params |-> <<>>, body |-> FALSE]
\* void greet_user(const char *name);
DeclGreetUser ==
    [t |-> "decl", name |-> "greet_user", ret |-> "void",
     params |-> << [type |-> "const char *", name |-> "name"] >>, body |-> FALSE]
\* extern "C" {
ExternCOpen == [t |-> "extern_C_open"]
\* }
CloseBrace == [t |-> "close_brace"]
NoTok == [t |-> "none"]

\* ---- mutants of the header (plausible slips) ----
\* the guard macro is tested but never defined
HeaderGuardNotDefined ==
    << [no |-> 1,  kind |-> "if_not_defined", macro |-> "learn_cgo", tok |-> NoTok],
       [no |-> 52, kind |-> "text", macro |-> "", tok |-> DeclHelloFromC],
       [no |-> 67, kind |-> "ifdef", macro |-> "__cplusplus", tok |-> NoTok],
       [no |-> 68, kind |-> "text", macro |-> "", tok |-> ExternCOpen],
       [no |-> 69, kind |-> "endif", macro |-> "", tok |-> NoTok],
       [no |-> 71, kind |-> "text", macro |-> "", tok |-> DeclHelloFromCpp],
       [no |-> 72, kind |-> "text", macro |-> "", tok |-> DeclGreetUser],
       [no |-> 74, kind |-> "ifdef", macro |-> "__cplusplus", tok |-> NoTok],
       [no |-> 75, kind |-> "text", macro |-> "", tok |-> CloseBrace],
       [no |-> 76, kind |-> "endif", macro |-> "", tok |-> NoTok],
       [no |-> 78, kind |-> "endif", macro |-> "", tok |-> NoTok] >>

\* the extern "C" block is closed before greet_user instead of after it
HeaderBlockClosedEarly ==
    << [no |-> 1,  kind |-> "if_not_defined", macro |-> "learn_cgo", tok |-> NoTok],
       [no |-> 2,  kind |-> "define", macro |-> "learn_cgo", tok |-> NoTok],
       [no |-> 52, kind |-> "text", macro |-> "", tok |-> DeclHelloFromC],
       [no |-> 67, kind |-> "ifdef", macro |-> "__cplusplus", tok |-> NoTok],
       [no |-> 68, kind |-> "text", macro |-> "", tok |-> ExternCOpen],
       [no |-> 69, kind |-> "endif", macro |-> "", tok |-> NoTok],
       [no |-> 71, kind |-> "text", macro |-> "", tok |-> DeclHelloFromCpp],
       [no |-> 74, kind |-> "ifdef", macro |-> "__cplusplus", tok |-> NoTok],
       [no |-> 75, kind |-> "text", macro |-> "", tok |-> CloseBrace],
       [no |-> 76, kind |-> "endif", macro |-> "", tok |-> NoTok],
       [no |-> 72, kind |-> "text", macro |-> "", tok |-> DeclGreetUser],
       [no |-> 78, kind |-> "endif", macro |-> "", tok |-> NoTok] >>

\* greet_user declared without its parameter
HeaderGreetNoParam ==
    << [no |-> 1,  kind |-> "if_not_defined", macro |-> "learn_cgo", tok |-> NoTok],
       [no |-> 2,  kind |-> "define", macro |-> "learn_cgo", tok |-> NoTok],
       [no |-> 52, kind |-> "text", macro |-> "", tok |-> DeclHelloFromC],
       [no |-> 67, kind |-> "ifdef", macro |-> "__cplusplus", tok |-> NoTok],
       [no |-> 68, kind |-> "text", macro |-> "", tok |-> ExternCOpen],
       [no |-> 69, kind |-> "endif", macro |-> "", tok |-> NoTok],
       [no |-> 71, kind |-> "text", macro |-> "", tok |-> DeclHelloFromCpp],
       [no |-> 72, kind |-> "text", macro |-> "",
        tok |-> [DeclGreetUser EXCEPT !.params = <<>>]],
       [no |-> 74, kind |-> "ifdef", macro |-> "__cplusplus", tok |-> NoTok],
       [no |-> 75, kind |-> "text", macro |-> "", tok |-> CloseBrace],
       [no |-> 76, kind |-> "endif", macro |-> "", tok |-> NoTok],
       [no |-> 78, kind |-> "endif", macro |-> "", tok |-> NoTok] >>

\* hello.h after comment removal: one record per directive or text line,
\* `no` is the line number in the file
Header ==
    << [no |-> 1,  kind |-> "if_not_defined", macro |-> "learn_cgo", tok |-> NoTok],
       [no |-> 2,  kind |-> "define", macro |-> "learn_cgo", tok |-> NoTok],
       [no |-> 52, kind |-> "text", macro |-> "", tok |-> DeclHelloFromC],
       [no |-> 67, kind |-> "ifdef", macro |-> "__cplusplus", tok |-> NoTok],
       [no |-> 68, kind |-> "text", macro |-> "", tok |-> ExternCOpen],
       [no |-> 69, kind |-> "endif", macro |-> "", tok |-> NoTok],
       [no |-> 71, kind |-> "text", macro |-> "", tok |-> DeclHelloFromCpp],
       [no |-> 72, kind |-> "text", macro |-> "", tok |-> DeclGreetUser],
       [no |-> 74, kind |-> "ifdef", macro |-> "__cplusplus", tok |-> NoTok],
       [no |-> 75, kind |-> "text", macro |-> "", tok |-> CloseBrace],
       [no |-> 76, kind |-> "endif", macro |-> "", tok |-> NoTok],
       [no |-> 78, kind |-> "endif", macro |-> "", tok |-> NoTok] >>

VARIABLES
    macros0,   \* macros defined before the first inclusion (fixed per translation unit)
    macros,    \* macros currently defined
    pc,        \* 0: in the including file; i > 0: about to process Header[i]
    stack,     \* open conditional groups, innermost last: is the group being kept?
    out,       \* text lines emitted to the compiler so far, in order
    count      \* completed inclusions of hello.h

vars == <<macros0, macros, pc, stack, out, count>>

\* ---- directive semantics ----
\* #if !defined(m), mutated: the negation is lost
NotDefinedNegationLost(m, ms) == m \in ms
\* #if !defined(m)
NotDefined(m, ms) == m \notin ms

\* #ifdef m, mutated: the group is always kept
IsDefinedAlways(m, ms) == TRUE
\* #ifdef m
IsDefined(m, ms) == m \in ms

\* #define m, mutated: a second macro leaks out of the header
DefineMacroLeaks(ms, m) == ms \cup {m, "OTHER_MACRO"}
\* #define m
DefineMacro(ms, m) == ms \cup {m}

\* text and #define lines take effect only when every enclosing group is kept
Active == stack = <<>> \/ stack[Len(stack)]

Line == Header[pc]

Advance ==
    /\ pc' = IF pc = Len(Header) THEN 0 ELSE pc + 1
    /\ count' = IF pc = Len(Header) THEN count + 1 ELSE count

Init ==
    /\ macros0 \in SUBSET PredefinableMacros
    /\ macros = macros0
    /\ pc = 0
    /\ stack = <<>>
    /\ out = <<>>
    /\ count = 0

\* the including file reaches an #include "hello.h"
Include ==
    /\ pc = 0
    /\ count < MaxIncludes
    /\ pc' = 1
    /\ UNCHANGED <<macros0, macros, stack, out, count>>

\* #if !defined(learn_cgo)
IfNotDefined ==
    /\ pc > 0
    /\ Line.kind = "if_not_defined"
    /\ stack' = Append(stack, Active /\ NotDefined(Line.macro, macros))
    /\ Advance
    /\ UNCHANGED <<macros0, macros, out>>

\* #ifdef __cplusplus
Ifdef ==
    /\ pc > 0
    /\ Line.kind = "ifdef"
    /\ stack' = Append(stack, Active /\ IsDefined(Line.macro, macros))
    /\ Advance
    /\ UNCHANGED <<macros0, macros, out>>

\* #endif
Endif ==
    /\ pc > 0
    /\ Line.kind = "endif"
    /\ stack # <<>>
    /\ stack' = SubSeq(stack, 1, Len(stack) - 1)
    /\ Advance
    /\ UNCHANGED <<macros0, macros, out>>

\* #define learn_cgo
Define ==
    /\ pc > 0
    /\ Line.kind = "define"
    /\ macros' = IF Active THEN DefineMacro(macros, Line.macro) ELSE macros
    /\ Advance
    /\ UNCHANGED <<macros0, stack, out>>

\* a declaration, extern "C" { or } : passed on to the compiler unless skipped
Text ==
    /\ pc > 0
    /\ Line.kind = "text"
    /\ out' = IF Active THEN Append(out, [no |-> Line.no, tok |-> Line.tok]) ELSE out
    /\ Advance
    /\ UNCHANGED <<macros0, macros, stack>>

Next == Include \/ IfNotDefined \/ Ifdef \/ Endif \/ Define \/ Text

Spec == Init /\ [][Next]_vars

\* ---- what the compiler sees ----
Cpp == "__cplusplus" \in macros0
Fresh == "learn_cgo" \notin macros0

Toks(kind) == SelectSeq(out, LAMBDA e : e.tok.t = kind)
Decls == Toks("decl")

RECURSIVE Depth(_)
\* nesting depth of extern "C" blocks after the first i emitted lines
Depth(i) ==
    IF i = 0 THEN 0
    ELSE LET d == Depth(i - 1) IN
         CASE out[i].tok.t = "extern_C_open" -> d + 1
           [] out[i].tok.t = "close_brace"   -> d - 1
           [] OTHER                          -> d

\* language linkage of the declaration emitted as out[i]
Linkage(i) == IF ~Cpp \/ Depth(i) > 0 THEN "C" ELSE "C++"


Names(seq) == [i \in 1..Len(seq) |-> seq[i].tok.name]
Signature(d) == [name |-> d.name, ret |-> d.ret,
                 params |-> [k \in 1..Len(d.params) |-> d.params[k].type]]
Signatures(seq) == [i \in 1..Len(seq) |-> Signature(seq[i].tok)]
\* declarations emitted from the #ifdef __cplusplus ... #endif region, lines 67-76
RegionIdx == {i \in 1..Len(out) : out[i].no \in 67..76 /\ out[i].tok.t = "decl"}
RegionDecls == SelectSeq(out, LAMBDA e : e.no \in 67..76 /\ e.tok.t = "decl")
Opens == Len(Toks("extern_C_open"))
Closes == Len(Toks("close_brace"))

\* C1: in a translation unit where learn_cgo starts undefined, after n >= 1
\* inclusions (and at every point of a later pass) the emitted text is what the
\* first pass emitted: the three prototypes once each (plus the linkage braces
\* in C++), and learn_cgo is defined; later passes add nothing.
C1_IncludeGuardIdempotent ==
    (Fresh /\ count >= 1) =>
        /\ Names(Decls) = <<"hello_from_c", "hello_from_cpp", "greet_user">>
        /\ Len(out) = 3 + (IF Cpp THEN 2 ELSE 0)
        /\ "learn_cgo" \in macros
C1_Witness == Fresh /\ count = 2 /\ pc = 0 /\ Len(Decls) = 3

\* C2: the declarations of the extern "C" region do not depend on the mode:
\* after an inclusion the region has contributed hello_from_cpp() and
\* greet_user(const char *) when the guard passed and nothing otherwise, the
\* same in C and in C++, and each of them has C linkage.
C2_RegionSameInCAndCpp ==
    /\ \A i \in RegionIdx : Linkage(i) = "C"
    /\ count >= 1 =>
         Signatures(RegionDecls) =
            IF Fresh
            THEN << [name |-> "hello_from_cpp", ret |-> "void", params |-> <<>>],
                    [name |-> "greet_user", ret |-> "void", params |-> <<"const char *">>] >>
            ELSE <<>>
C2_Witness == Cpp /\ Fresh /\ count = 1 /\ pc = 0 /\ Len(RegionDecls) = 2

\* C3: every emitted prototype has C linkage, in C and in C++ translation units.
C3_AllDeclsCLinkage ==
    \A i \in 1..Len(out) : out[i].tok.t = "decl" => Linkage(i) = "C"

\* C4: after a first inclusion with learn_cgo undefined, exactly three
\* declarations have been emitted, none with a body and nothing else but the
\* linkage braces: void hello_from_c(), void hello_from_cpp(),
\* void greet_user(const char *name); the same in C and C++.
C4_ThreePrototypes ==
    (Fresh /\ count = 1 /\ pc = 0) =>
        /\ Signatures(Decls) =
             << [name |-> "hello_from_c", ret |-> "void", params |-> <<>>],
                [name |-> "hello_from_cpp", ret |-> "void", params |-> <<>>],
                [name |-> "greet_user", ret |-> "void", params |-> <<"const char *">>] >>
        /\ Decls[3].tok.params[1].name = "name"
        /\ \A i \in 1..Len(Decls) : ~Decls[i].tok.body
        /\ \A i \in 1..Len(out) :
             out[i].tok.t \in {"decl", "extern_C_open", "close_brace"}
        /\ Len(out) - Opens - Closes = 3
C4_Witness == Fresh /\ count = 1 /\ pc = 0 /\ ~Cpp /\ Len(out) = 3

\* C5: extern "C" { is emitted only in C++, the emitted braces are balanced
\* whenever the header is not being processed (at most one block is open while
\* it is), and after an inclusion whose guard passed the opening and the
\* closing line have each been emitted once if __cplusplus is defined and not
\* at all otherwise.
C5_ExternCWrapper ==
    /\ Opens > 0 => Cpp
    /\ Closes > 0 => Cpp
    /\ Depth(Len(out)) \in {0, 1}
    /\ pc = 0 => Depth(Len(out)) = 0
    /\ count >= 1 => /\ Opens = (IF Cpp /\ Fresh THEN 1 ELSE 0)
                     /\ Closes = Opens
C5_Witness == Cpp /\ Fresh /\ count >= 1 /\ pc = 0 /\ Opens = 1 /\ Closes = 1

\* C6: the header only ever adds learn_cgo to the defined macros: the set is
\* always between the initial set and the initial set plus learn_cgo, equals
\* the latter after any inclusion, __cplusplus is as it was, and learn_cgo,
\* once defined, stays defined.
C6_MacroFrame ==
    /\ [](/\ macros0 \subseteq macros
          /\ macros \subseteq macros0 \cup {"learn_cgo"}
          /\ count >= 1 => macros = macros0 \cup {"learn_cgo"}
          /\ ("__cplusplus" \in macros) = ("__cplusplus" \in macros0)
          /\ ("OTHER_MACRO" \in macros) = ("OTHER_MACRO" \in macros0))
    /\ [][("learn_cgo" \in macros) => ("learn_cgo" \in macros')]_vars
C6_Witness ==
    /\ Fresh /\ "OTHER_MACRO" \notin macros0 /\ count >= 2 /\ pc = 0
    /\ macros = macros0 \cup {"learn_cgo"}

\* C7: with learn_cgo defined before the first inclusion nothing is ever
\* emitted and the macros stay as they were, in C and in C++.
C7_PredefinedGuardSkipsAll ==
    ~Fresh => (out = <<>> /\ macros = macros0)
C7_Witness == ~Fresh /\ Cpp /\ count >= 1 /\ pc = 0 /\ out = <<>>

====
